---- MODULE Spec2Model ----
(***************************************************************************)
(* Execution orchestrator of the PAD framework:                            *)
(*   pad_framework/flows/flow_executor.py   FlowExecutor.execute and the   *)
(*                                          tenacity retry around the      *)
(*                                          runner (_execute_flow)         *)
(*   pad_framework/flows/async_executor.py  AsyncFlowExecutor:             *)
(*                                          execute_async (semaphore +     *)
(*                                          thread pool), execute_batch,   *)
(*                                          execute_with_dependencies,     *)
(*                                          execute_pipeline,              *)
(*                                          cancel_execution               *)
(*   pad_framework/flows/flow_manager.py    FlowManager.create_flow,       *)
(*                                          delete_flow, list_flows        *)
(*   pad_framework/core/config.py           Config: __init__, get, set,    *)
(*                                          load_from_env, load_from_file  *)
(*                                                                         *)
(* One behaviour of the model is one use of the program.  Init draws the   *)
(* use (the variable scenario) and its inputs:                             *)
(*   "execute"  one FlowExecutor.execute call                              *)
(*   "graph"    AsyncFlowExecutor.execute_with_dependencies calls          *)
(*   "batch"    one AsyncFlowExecutor.execute_batch call                   *)
(*   "direct"   execute_async coroutines started as tasks by the caller    *)
(*   "pipeline" one AsyncFlowExecutor.execute_pipeline call                *)
(* FrameworkSpec has the uses of the synchronous parts:                    *)
(*   "manager"  FlowManager.create_flow and delete_flow calls              *)
(*   "schedule" FlowExecutor.schedule and cancel_schedule calls            *)
(* and ConfigSpec the Config instances of one process ("config").          *)
(***************************************************************************)
EXTENDS Integers, Sequences, FiniteSets, TLC

(***************************************************************************)
(* Bounds of the model.                                                    *)
(***************************************************************************)
\* items of one scheduling call (the keys of flow_graph, the entries of executions)
NumItems == 3
\* dependency edges of one flow_graph, unknown names and self-edges included
MaxEdges == 2
\* largest retry_count a caller passes
MaxRetryCount == 2
\* largest max_concurrent / max_workers an AsyncFlowExecutor is built with
MaxConcurrent == 2
MaxWorkers == 3
\* segments of the longest key passed to Config.set / Config.get
MaxKeyLen == 2
\* dict objects of the Config instances, the class default's included
MaxDicts == 5
\* schedule ids uuid4 can produce
MaxSchedules == 3

Names == 1..NumItems
\* a dependency name that is no key of flow_graph
Unknown == NumItems + 1
DepNames == Names \cup {Unknown}

(***************************************************************************)
(* flow_executor.py: the runner and the retry around it.                   *)
(***************************************************************************)
\* What one subprocess.run of the runner does: it returns code 0, it returns a
\* non-zero code, or it does not return within the timeout (TimeoutExpired).
AttemptOutcomes == {"ok", "nonzero", "timeout"}

\* @retry(stop=stop_after_attempt(3), wait=wait_exponential(multiplier=1, min=4, max=10))
StopAfterAttempt == 3
WaitMultiplier == 1
WaitMin == 4
WaitMax == 10

Max2(a, b) == IF a >= b THEN a ELSE b
Min2(a, b) == IF a <= b THEN a ELSE b

WaitExponentialFromBase(n) == Min2(WaitMultiplier * 2^(n - 1), WaitMax)

\* tenacity wait_exponential: the seconds slept after failed attempt number n
\* (n counts from 1): max(max(0, min), min(multiplier * 2 ** (n - 1), max)).
WaitExponential(n) == Max2(Max2(0, WaitMin), Min2(WaitMultiplier * 2^(n - 1), WaitMax))

\* FlowExecutor._execute_flow on a runner that behaves as `outcome`: the output
\* dict on return code 0, an Exception otherwise.  A timeout is re-raised as a
\* plain Exception whose text says "timed out".
ExecuteFlow(outcome) ==
    IF outcome = "ok" THEN [raised |-> FALSE, value |-> "output", kind |-> "none"]
    ELSE IF outcome = "nonzero"
         THEN [raised |-> TRUE, value |-> "failed_with_code", kind |-> "Exception"]
         ELSE [raised |-> TRUE, value |-> "timed_out_after", kind |-> "Exception"]

\* The tenacity loop of _execute_with_retry from attempt number n on.  log[k] is
\* what the runner does on its k-th invocation.  The loop stops on the first
\* attempt that returns, or raises RetryError once StopAfterAttempt attempts
\* have failed, and sleeps WaitExponential(n) after any other failed attempt;
\* retry_count is passed through and never read.
RECURSIVE Retrying(_, _, _, _)
Retrying(retry_count, log, n, waits) ==
    LET r == ExecuteFlow(log[n])
    IN  IF ~r.raised
        THEN [raised |-> FALSE, value |-> r.value, kind |-> "none",
              attempts |-> n, waits |-> waits, last |-> log[n]]
        ELSE IF n >= StopAfterAttempt
             THEN [raised |-> TRUE, value |-> "RetryError", kind |-> "RetryError",
                   attempts |-> n, waits |-> waits, last |-> log[n]]
             ELSE Retrying(retry_count, log, n + 1, Append(waits, WaitExponential(n)))

ExecuteWithRetry(retry_count, log) == Retrying(retry_count, log, 1, <<>>)

\* The branch of FlowExecutor.execute on retry_count (lines 80-88): the runner
\* under the tenacity loop, or the runner once.
RunChain(retry_count, log) ==
    IF retry_count > 0
    THEN ExecuteWithRetry(retry_count, log)
    ELSE LET r == ExecuteFlow(log[1])
         IN  [raised |-> r.raised, value |-> r.value, kind |-> r.kind,
              attempts |-> 1, waits |-> <<>>, last |-> log[1]]

ExecuteWithoutErrorText(retry_count, log) ==
    LET c == RunChain(retry_count, log)
    IN  IF ~c.raised
        THEN [status |-> "success", output |-> c.value, error |-> "none",
              attempts |-> c.attempts, waits |-> c.waits, last |-> c.last]
        ELSE [status |-> "failed", output |-> "empty", error |-> "none",
              attempts |-> c.attempts, waits |-> c.waits, last |-> c.last]

\* FlowExecutor.execute: status "success" with the runner's output when the
\* chain returned, status "failed" with str(e) and an empty output when it
\* raised.  attempts, waits and last are not fields of FlowExecutionResult:
\* they record how many times the runner was invoked, the sleeps between the
\* invocations and what the last invocation did.
Execute(retry_count, log) ==
    LET c == RunChain(retry_count, log)
    IN  IF ~c.raised
        THEN [status |-> "success", output |-> c.value, error |-> "none",
              attempts |-> c.attempts, waits |-> c.waits, last |-> c.last]
        ELSE [status |-> "failed", output |-> "empty", error |-> c.value,
              attempts |-> c.attempts, waits |-> c.waits, last |-> c.last]

\* The runner's behaviour over the invocations one execute call can make.
Logs == [1..StopAfterAttempt -> AttemptOutcomes]

\* The fields of FlowExecutionResult the orchestrator sees.
FlowExecutionResult(name, x) ==
    [flow_name |-> name, status |-> x.status, output |-> x.output, error |-> x.error]

NoResult == [flow_name |-> 0, status |-> "none", output |-> "empty", error |-> "none"]

\* A runner that does the same on every invocation.
Steady(o) == [k \in 1..StopAfterAttempt |-> o]

(***************************************************************************)
(* State.                                                                  *)
(***************************************************************************)
VARIABLES
    scenario,        \* which use of the program this behaviour is
    x_retry,         \* "execute": the retry_count argument
    x_log,           \* "execute": what the runner does on each invocation
    execution,       \* "execute": what FlowExecutor.execute returned
    max_concurrent,  \* AsyncFlowExecutor(max_concurrent=...)
    max_workers,     \* AsyncFlowExecutor(max_workers=...)
    semaphore,       \* self.semaphore: its free value
    waiters,         \* self.semaphore: coroutines suspended in acquire, oldest first
    work_queue,      \* self.executor: submitted jobs no worker thread has taken yet
    st,              \* per item: where its execute_async coroutine is
    outcome,         \* per item: what flow_executor.execute returned in the thread
    runs,            \* per item: how often flow_executor.execute was entered
    fail_fast,       \* execute_batch(fail_fast=...)
    flow_graph,      \* execute_with_dependencies: item -> its 'dependencies'
    results,         \* the results dict / list of the call, NoResult where empty
    remaining,       \* execute_with_dependencies: remaining
    tasks,           \* execute_with_dependencies: coroutines of the wave not yet awaited
    awaited,         \* the execute_async coroutine the scheduling call awaits inline
    pc,              \* execute_with_dependencies: "loop" (line 191) or "await" (line 217)
    resubmitted,     \* execute_with_dependencies: the call is the second one on this graph
    first_ran,       \* the items the first call on this graph ran before it raised
    rounds,          \* execute_with_dependencies: passes of the while loop's body so far
    pass_output,     \* execute_pipeline(pass_output=...)
    inputs,          \* execute_pipeline: the input_variables each stage was started with
    pipeline_results,\* execute_pipeline: the list `results`
    active_tasks,    \* self.active_tasks: the execution ids it holds
    cancel_ret,      \* what cancel_execution returned, "not_called" before it is called
    call,            \* the scheduling call: "active", "returned" or "raised"
    files,           \* FlowManager: the .json files under flows_path
    sub_exists,      \* FlowManager: whether flows_path has the subdirectory
    fm_last,         \* FlowManager: the last call and what it returned
    heap,            \* Config: the dict objects, by identity
    top,             \* Config: self.config of each instance (0: not constructed)
    brk,             \* Config: the number of dict objects created so far
    cfg_raised,      \* Config: whether the last call raised
    scheduled_flows, \* FlowExecutor.scheduled_flows: its keys
    issued,          \* the schedule ids uuid4 has produced so far
    n_schedule,      \* how many schedule calls were made
    n_cancelled,     \* how many cancel_schedule calls returned True
    sched_last       \* the last schedule / cancel_schedule call and its result

vars == <<scenario, x_retry, x_log, execution, max_concurrent, max_workers,
          semaphore, waiters, work_queue, st, outcome, runs, fail_fast,
          flow_graph, results, remaining, tasks, awaited, pc, resubmitted,
          first_ran, rounds, pass_output, inputs, pipeline_results, active_tasks,
          cancel_ret, call, files, sub_exists, fm_last, heap, top, brk,
          cfg_raised, scheduled_flows, issued, n_schedule, n_cancelled, sched_last>>

execVars == <<x_retry, x_log, execution>>
poolVars == <<max_concurrent, max_workers>>
graphVars == <<flow_graph, remaining, tasks, awaited, pc, resubmitted, first_ran,
               rounds>>
pipeVars == <<pass_output, inputs, pipeline_results>>
cancelVars == <<active_tasks, cancel_ret>>
managerVars == <<files, sub_exists, fm_last>>
configVars == <<heap, top, brk, cfg_raised>>
scheduleVars == <<scheduled_flows, issued, n_schedule, n_cancelled, sched_last>>
frameworkVars == <<managerVars, configVars, scheduleVars>>
asyncVars == <<execVars, poolVars, graphVars, pipeVars, cancelVars, semaphore,
               waiters, work_queue, st, outcome, runs, fail_fast, results, call>>

\* st[i]:
\*   "new"        no execute_async coroutine of the item has run yet
\*   "waiting"    suspended in `async with self.semaphore` (line 62)
\*   "submitted"  holds a slot; its job waits in the thread pool (line 70)
\*   "running"    a worker thread is inside flow_executor.execute
\*   "finished"   the thread has returned; the coroutine has not resumed yet
\*   "done"       the coroutine has returned its result and released the slot
NoExecution == [status |-> "none", output |-> "empty", error |-> "none",
                attempts |-> 0, waits |-> <<>>, last |-> "none"]

Edges(g) == {e \in Names \X DepNames : e[2] \in g[e[1]]}
Graphs == {g \in [Names -> SUBSET DepNames] : Cardinality(Edges(g)) <= MaxEdges}

Holding == {i \in Names : st[i] \in {"submitted", "running", "finished"}}
Running == {i \in Names : st[i] = "running"}

IdleExec == /\ x_retry = 0
            /\ x_log = [k \in 1..StopAfterAttempt |-> "ok"]
            /\ execution = NoExecution

IdleGraph == /\ flow_graph = [n \in Names |-> {}]
             /\ remaining = {}
             /\ tasks = {}
             /\ awaited = {}
             /\ pc = "loop"
             /\ resubmitted = FALSE
             /\ first_ran = {}
             /\ rounds = 0

\* What a stage of execute_pipeline is started with: the 'input_variables' of
\* its own flow_config, or the output of an earlier result.
NoInput == [kind |-> "none", of |-> 0, value |-> "none"]
DeclaredInput(i) == [kind |-> "declared", of |-> i, value |-> "input_variables"]
OutputOf(entry) == [kind |-> "output", of |-> entry.flow, value |-> entry.result.output]

IdlePipe == /\ pass_output = FALSE
            /\ inputs = [n \in Names |-> NoInput]
            /\ pipeline_results = <<>>

(***************************************************************************)
(* flow_manager.py: the flows directory.                                   *)
(***************************************************************************)
\* A flow name is a string; flows_path / f"{name}.json" splits it at the path
\* separator into a directory below flows_path ("" for none) and a stem.
Dirs == {"", "sub"}
Stems == {"a", "b"}
FlowNames == [dir : Dirs, stem : Stems]
NameString(n) == IF n.dir = "" THEN n.stem ELSE n.dir \o "/" \o n.stem

\* The values datetime.now().isoformat() can take.
Stamps == {"t1", "t2"}

NoFile == [present |-> FALSE, name |-> "none", created_at |-> "none"]
\* Lines 106-111: what create_flow writes.
FlowFile(n, t) == [present |-> TRUE, name |-> NameString(n), created_at |-> t]

\* flow_path.exists() of lines 101 and 133.
PathExists(fs, n) == fs[n].present

\* open(flow_path, 'w') succeeds only in an existing directory; flows_path
\* itself was made by Config.create_directories.
DirExists(n, sub) == n.dir = "" \/ sub

\* list_flows without search_pattern: the stems of all .json files below
\* flows_path, subdirectories included (rglob); as a set, the order and the
\* repetitions of the sorted list left out.
ListFlows(fs) == {n.stem : n \in {m \in FlowNames : fs[m].present}}

NoManagerCall == [op |-> "none", name |-> [dir |-> "", stem |-> "none"], ret |-> FALSE]

IdleManager ==
    /\ files = [n \in FlowNames |-> NoFile]
    /\ sub_exists = FALSE
    /\ fm_last = NoManagerCall

(***************************************************************************)
(* core/config.py: Config over dict objects with identity.                 *)
(***************************************************************************)
Seg == {"logging", "level"}
Values == {"INFO", "DEBUG"}
Configs == {"c1", "c2"}
DictIds == 1..MaxDicts
\* a dot-separated key, split
KeyPaths == UNION {[1..n -> Seg] : n \in 1..MaxKeyLen}

\* What a dict holds under a key: nothing, a scalar, or another dict object.
Absent == [kind |-> "absent", leaf |-> "none", id |-> 0]
Leaf(v) == [kind |-> "leaf", leaf |-> v, id |-> 0]
DictRef(d) == [kind |-> "dict", leaf |-> "none", id |-> d]
EmptyDict == [k \in Seg |-> Absent]

\* Config.DEFAULT_CONFIG, cut down to {"logging": {"level": "INFO"}}: the
\* class attribute is dict 1, its section dict 2.
DefaultConfigId == 1
DefaultHeap ==
    [d \in DictIds |->
        IF d = DefaultConfigId
        THEN [k \in Seg |-> IF k = "logging" THEN DictRef(DefaultConfigId + 1) ELSE Absent]
        ELSE IF d = DefaultConfigId + 1
             THEN [k \in Seg |-> IF k = "level" THEN Leaf("INFO") ELSE Absent]
             ELSE EmptyDict]

\* Config.get, lines 228-237.
RECURSIVE GetWalk(_, _, _, _)
GetWalk(h, value, keys, default) ==
    IF keys = <<>> THEN value
    ELSE IF value.kind = "dict" /\ h[value.id][Head(keys)].kind # "absent"
         THEN GetWalk(h, h[value.id][Head(keys)], Tail(keys), default)
         ELSE default

Get(h, d, key, default) == GetWalk(h, DictRef(d), key, default)

\* Config.set, lines 247-255, from dict d on; b counts the dict objects made so
\* far.  A missing key on the way gets a new empty dict.  On a scalar the next
\* `k not in config` / `config[k] = ...` raises TypeError.
RECURSIVE SetWalk(_, _, _, _, _)
SetWalk(h, d, keys, value, b) ==
    IF Len(keys) = 1
    THEN [heap |-> [h EXCEPT ![d][keys[1]] = Leaf(value)], brk |-> b, raised |-> FALSE]
    ELSE LET cur == h[d][Head(keys)]
         IN  IF cur.kind = "absent"
             THEN SetWalk([h EXCEPT ![d][Head(keys)] = DictRef(b + 1)],
                          b + 1, Tail(keys), value, b + 1)
             ELSE IF cur.kind = "dict"
                  THEN SetWalk(h, cur.id, Tail(keys), value, b)
                  ELSE [heap |-> h, brk |-> b, raised |-> TRUE]

\* The dict objects SetWalk makes.
RECURSIVE Allocations(_, _, _)
Allocations(h, d, keys) ==
    IF Len(keys) = 1 THEN 0
    ELSE LET cur == h[d][Head(keys)]
         IN  IF cur.kind = "absent" THEN Len(keys) - 1
             ELSE IF cur.kind = "dict" THEN Allocations(h, cur.id, Tail(keys))
                  ELSE 0

\* load_from_env, lines 188-195, with PAD_LOG_LEVEL as the only variable: e is
\* its value or "unset".  self.config["logging"]["level"] = value raises when
\* "logging" holds no dict.
LoadFromEnv(h, d, e) ==
    IF e = "unset" THEN [heap |-> h, raised |-> FALSE]
    ELSE IF h[d]["logging"].kind = "dict"
         THEN [heap |-> [h EXCEPT ![h[d]["logging"].id]["level"] = Leaf(e)],
               raised |-> FALSE]
         ELSE [heap |-> h, raised |-> TRUE]

\* load_from_file on a file that holds {"logging": {"level": v}}: _deep_update
\* (lines 205-209) descends into a dict of the target and otherwise stores the
\* file's own dict object, number b + 1.
DeepUpdate(h, d, v, b) ==
    IF h[d]["logging"].kind = "dict"
    THEN [heap |-> [h EXCEPT ![h[d]["logging"].id]["level"] = Leaf(v)], brk |-> b]
    ELSE [heap |-> [h EXCEPT ![d]["logging"] = DictRef(b + 1),
                             ![b + 1] = [k \in Seg |-> IF k = "level" THEN Leaf(v) ELSE Absent]],
          brk |-> b + 1]

IdleConfig ==
    /\ heap = DefaultHeap
    /\ top = [c \in Configs |-> 0]
    /\ brk = DefaultConfigId + 1
    /\ cfg_raised = FALSE

(***************************************************************************)
(* flow_executor.py: the schedule registry.                                *)
(***************************************************************************)
ScheduleIds == 1..MaxSchedules

\* Line 296.
RegisteredEver(id) == id \in issued

Registered(id) == id \in scheduled_flows

NoScheduleCall == [op |-> "none", id |-> 0, ret |-> FALSE]

IdleSchedule ==
    /\ scheduled_flows = {}
    /\ issued = {}
    /\ n_schedule = 0
    /\ n_cancelled = 0
    /\ sched_last = NoScheduleCall

IdleFramework == IdleManager /\ IdleConfig /\ IdleSchedule

\* AsyncFlowExecutor.__init__ and no coroutine started yet.
InitPool(c, w) ==
    /\ max_concurrent = c
    /\ max_workers = w
    /\ semaphore = c
    /\ waiters = <<>>
    /\ work_queue = <<>>
    /\ st = [n \in Names |-> "new"]
    /\ outcome = [n \in Names |-> NoResult]
    /\ runs = [n \in Names |-> 0]
    /\ results = [n \in Names |-> NoResult]
    /\ active_tasks = {}
    /\ cancel_ret = "not_called"

InitExecute ==
    /\ IdleFramework
    /\ scenario = "execute"
    /\ x_retry \in 0..(MaxRetryCount + 1)
    /\ x_log \in Logs
    /\ execution = NoExecution
    /\ InitPool(1, 1)
    /\ IdleGraph
    /\ IdlePipe
    /\ fail_fast = FALSE
    /\ call = "active"

\* execute_with_dependencies, lines 188-189.
InitGraph ==
    /\ IdleFramework
    /\ scenario = "graph"
    /\ IdleExec
    /\ InitPool(MaxConcurrent, MaxWorkers)
    /\ flow_graph \in Graphs
    /\ remaining = Names
    /\ tasks = {}
    /\ awaited = {}
    /\ pc = "loop"
    /\ resubmitted = FALSE
    /\ first_ran = {}
    /\ rounds = 0
    /\ IdlePipe
    /\ fail_fast = FALSE
    /\ call = "active"

\* execute_batch, lines 150-159: one coroutine per entry, none started.
InitBatch ==
    /\ IdleFramework
    /\ scenario = "batch"
    /\ IdleExec
    /\ \E c \in 1..MaxConcurrent, w \in 1..MaxWorkers : InitPool(c, w)
    /\ IdleGraph
    /\ IdlePipe
    /\ fail_fast \in BOOLEAN
    /\ call = "active"

InitDirect ==
    /\ IdleFramework
    /\ scenario = "direct"
    /\ IdleExec
    /\ \E c \in 1..MaxConcurrent, w \in 1..MaxWorkers : InitPool(c, w)
    /\ IdleGraph
    /\ IdlePipe
    /\ fail_fast = FALSE
    /\ call = "active"

\* execute_pipeline, lines 238-239: the stages are the items in list order.
InitPipeline ==
    /\ IdleFramework
    /\ scenario = "pipeline"
    /\ IdleExec
    /\ InitPool(MaxConcurrent, MaxWorkers)
    /\ IdleGraph
    /\ pass_output \in BOOLEAN
    /\ inputs = [n \in Names |-> NoInput]
    /\ pipeline_results = <<>>
    /\ fail_fast = FALSE
    /\ call = "active"

Init == InitExecute \/ InitGraph \/ InitBatch \/ InitDirect \/ InitPipeline

(***************************************************************************)
(* "execute": FlowExecutor.execute, called directly.                       *)
(***************************************************************************)
ExecuteCall ==
    /\ scenario = "execute"
    /\ call = "active"
    /\ execution' = Execute(x_retry, x_log)
    /\ call' = "returned"
    /\ UNCHANGED <<scenario, frameworkVars,
                   x_retry, x_log, poolVars, pipeVars, cancelVars,
                   semaphore, waiters,
                   work_queue, st, outcome, runs, fail_fast, results, graphVars>>

(***************************************************************************)
(* async_executor.py: execute_async, one coroutine per item.               *)
(***************************************************************************)
\* asyncio.Semaphore.acquire as the coroutine reaches line 62: it takes a slot
\* when one is free and nobody queues for it, and suspends otherwise.
CanAcquireAlways == TRUE

CanAcquire == semaphore > 0 /\ waiters = <<>>

\* Lines 62-77 up to the first suspension of the coroutine of item i: the slot
\* is taken and the job handed to the thread pool, or the coroutine queues on
\* the semaphore.
StartAsync(i) ==
    IF CanAcquire
    THEN /\ semaphore' = semaphore - 1
         /\ work_queue' = Append(work_queue, i)
         /\ st' = [st EXCEPT ![i] = "submitted"]
         /\ UNCHANGED waiters
    ELSE /\ waiters' = Append(waiters, i)
         /\ st' = [st EXCEPT ![i] = "waiting"]
         /\ UNCHANGED <<semaphore, work_queue>>

\* The oldest waiter of the semaphore resumes once a slot is free (the release
\* of line 62's `async with` woke it): it takes the slot and submits its job.
Wake(i) ==
    /\ scenario \in {"graph", "batch", "direct", "pipeline"}
    /\ waiters # <<>>
    /\ Head(waiters) = i
    /\ semaphore > 0
    /\ waiters' = Tail(waiters)
    /\ semaphore' = semaphore - 1
    /\ work_queue' = Append(work_queue, i)
    /\ st' = [st EXCEPT ![i] = "submitted"]
    /\ UNCHANGED <<scenario, frameworkVars,
                   execVars, poolVars, pipeVars, cancelVars,
                   outcome, runs, fail_fast,
                   results, graphVars, call>>

\* ThreadPoolExecutor(max_workers): a worker thread takes the oldest job of the
\* queue and enters _execute_sync, i.e. flow_executor.execute (lines 89-113).
Dispatch(i) ==
    /\ scenario \in {"graph", "batch", "direct", "pipeline"}
    /\ work_queue # <<>>
    /\ Head(work_queue) = i
    /\ Cardinality(Running) < max_workers
    /\ work_queue' = Tail(work_queue)
    /\ st' = [st EXCEPT ![i] = "running"]
    /\ runs' = [runs EXCEPT ![i] = @ + 1]
    /\ UNCHANGED <<scenario, frameworkVars,
                   execVars, poolVars, pipeVars, cancelVars,
                   semaphore, waiters, outcome,
                   fail_fast, results, graphVars, call>>

\* The worker thread leaves flow_executor.execute with its result; the future
\* of run_in_executor is resolved.  rc is the retry_count the item was
\* configured with; its runner does o on every invocation.
RunnerDone(i) ==
    /\ scenario \in {"graph", "batch", "direct", "pipeline"}
    /\ st[i] = "running"
    /\ st' = [st EXCEPT ![i] = "finished"]
    /\ UNCHANGED <<scenario, frameworkVars,
                   execVars, poolVars, pipeVars, cancelVars,
                   semaphore, waiters, work_queue,
                   runs, fail_fast, results, graphVars, call>>
    /\ \E rc \in 0..MaxRetryCount, o \in AttemptOutcomes :
          outcome' = [outcome EXCEPT ![i] = FlowExecutionResult(i, Execute(rc, Steady(o)))]

\* The coroutine resumes after line 70, returns the result (line 83) and leaves
\* `async with`, which releases the slot.  A callback is awaited before that,
\* inside `async with` (lines 79-81); _call_callback (lines 127-133) catches
\* what the callback raises, so the coroutine goes on to line 83 either way.
ReturnAsyncKeepsSlotOnFailure(i) ==
    /\ semaphore' = IF outcome[i].status = "failed" THEN semaphore ELSE semaphore + 1
    /\ st' = [st EXCEPT ![i] = "done"]
    /\ results' = [results EXCEPT ![i] = outcome[i]]

ReturnAsync(i) ==
    /\ semaphore' = semaphore + 1
    /\ st' = [st EXCEPT ![i] = "done"]
    /\ results' = [results EXCEPT ![i] = outcome[i]]

\* asyncio.gather(*tasks) of lines 163 and 166 returns a list that holds the
\* result of the k-th awaitable at index k, whenever that awaitable finished.
GatherIndexByCompletion(i) == Cardinality({j \in Names : st[j] = "done"}) + 1

GatherIndex(i) == i

\* The same exit of execute_async as ReturnAsync, for a task of gather.
ReturnAsyncToGather(i) ==
    /\ semaphore' = semaphore + 1
    /\ st' = [st EXCEPT ![i] = "done"]
    /\ results' = [results EXCEPT ![GatherIndex(i)] = outcome[i]]

(***************************************************************************)
(* "direct": the caller starts execute_async coroutines as tasks.          *)
(***************************************************************************)
DirectStart(i) ==
    /\ scenario = "direct"
    /\ st[i] = "new"
    /\ StartAsync(i)
    /\ UNCHANGED <<scenario, frameworkVars,
                   execVars, poolVars, pipeVars, cancelVars,
                   outcome, runs, fail_fast,
                   results, graphVars, call>>

DirectFinish(i) ==
    /\ scenario = "direct"
    /\ st[i] = "finished"
    /\ ReturnAsync(i)
    /\ UNCHANGED <<scenario, frameworkVars,
                   execVars, poolVars, pipeVars, cancelVars,
                   waiters, work_queue, outcome,
                   runs, fail_fast, graphVars, call>>

(***************************************************************************)
(* "batch": execute_batch.                                                 *)
(***************************************************************************)
\* asyncio.gather (lines 163, 166) wraps every coroutine in a task; the event
\* loop runs the first step of the tasks in list order.
BatchStart(i) ==
    /\ scenario = "batch"
    /\ call = "active"
    /\ st[i] = "new"
    /\ \A j \in Names : j < i => st[j] # "new"
    /\ StartAsync(i)
    /\ UNCHANGED <<scenario, frameworkVars,
                   execVars, poolVars, pipeVars, cancelVars,
                   outcome, runs, fail_fast,
                   results, graphVars, call>>

\* A task of the batch finishes; gather keeps its result at the item's index.
\* The completion callbacks of the threads run after the first step of every
\* task of the batch.
BatchFinish(i) ==
    /\ scenario = "batch"
    /\ st[i] = "finished"
    /\ \A j \in Names : st[j] # "new"
    /\ ReturnAsyncToGather(i)
    /\ UNCHANGED <<scenario, frameworkVars,
                   execVars, poolVars, pipeVars, cancelVars,
                   waiters, work_queue, outcome,
                   runs, fail_fast, graphVars, call>>

\* Whether gather hands the results to execute_batch.  Without
\* return_exceptions (fail_fast, line 163) gather raises as soon as a task
\* raises and otherwise returns once every task is done; with it (line 166) it
\* returns once every task is done.  execute_async re-raises what it catches
\* (line 87), but flow_executor.execute turns every exception of the runner
\* into a result, so no task of the batch raises and both calls of gather
\* return when the last task is done.
GatherDoneOnlyIfAllSucceed(ff) ==
    \A j \in Names : st[j] = "done" /\ (ff => results[j].status = "success")

GatherDoneAtFirstFailure(ff) ==
    \/ \A j \in Names : st[j] = "done"
    \/ \E j \in Names : st[j] = "done" /\ results[j].status = "failed"

GatherDone(ff) == \A j \in Names : st[j] = "done"

\* Line 168.
BatchReturn ==
    /\ scenario = "batch"
    /\ call = "active"
    /\ GatherDone(fail_fast)
    /\ call' = "returned"
    /\ UNCHANGED <<scenario, frameworkVars,
                   execVars, poolVars, pipeVars, cancelVars,
                   semaphore, waiters, work_queue,
                   st, outcome, runs, fail_fast, results, graphVars>>

(***************************************************************************)
(* "graph": execute_with_dependencies.                                     *)
(***************************************************************************)
\* Lines 193-199: the remaining items every dependency of which is a key of
\* results.
ReadyIgnoringDependencies(rem, res, graph) == rem

ReadyAmongAllKeys(rem, res, graph) ==
    {n \in Names : \A dep \in graph[n] : dep \in Names /\ res[dep] # NoResult}

Ready(rem, res, graph) ==
    {n \in rem : \A dep \in graph[n] : dep \in Names /\ res[dep] # NoResult}

\* Lines 191-214: the head of the while loop.  The call returns when nothing
\* remains, raises ValueError when nothing is ready, and otherwise creates the
\* coroutines of the wave (none of them runs before it is awaited).
GraphLoop ==
    /\ scenario = "graph"
    /\ call = "active"
    /\ pc = "loop"
    /\ IF remaining = {}
       THEN /\ call' = "returned"
            /\ UNCHANGED <<tasks, pc, rounds>>
       ELSE /\ rounds' = rounds + 1
            /\ IF Ready(remaining, results, flow_graph) = {}
               THEN /\ call' = "raised"
                    /\ UNCHANGED <<tasks, pc>>
               ELSE /\ tasks' = Ready(remaining, results, flow_graph)
                    /\ pc' = "await"
                    /\ UNCHANGED call
    /\ UNCHANGED <<scenario, frameworkVars,
                   execVars, poolVars, pipeVars, cancelVars,
                   semaphore, waiters, work_queue,
                   st, outcome, runs, fail_fast, flow_graph, results, remaining,
                   awaited, resubmitted, first_ran>>

\* Lines 217-218: `await task` on the next coroutine of the wave runs it inside
\* the caller's task.  The list is in the iteration order of the set
\* `remaining`, which is any order.
GraphAwait(i) ==
    /\ scenario = "graph"
    /\ call = "active"
    /\ pc = "await"
    /\ awaited = {}
    /\ i \in tasks
    /\ awaited' = {i}
    /\ StartAsync(i)
    /\ UNCHANGED <<scenario, frameworkVars,
                   execVars, poolVars, pipeVars, cancelVars,
                   outcome, runs, fail_fast,
                   flow_graph, results, remaining, tasks, pc, resubmitted,
                   first_ran, rounds, call>>

GraphCollectKeepsRemaining(i) ==
    /\ scenario = "graph"
    /\ pc = "await"
    /\ awaited = {i}
    /\ st[i] = "finished"
    /\ ReturnAsync(i)
    /\ remaining' = remaining
    /\ tasks' = tasks \ {i}
    /\ awaited' = {}
    /\ pc' = IF tasks \ {i} = {} THEN "loop" ELSE "await"
    /\ UNCHANGED <<scenario, frameworkVars,
                   execVars, poolVars, pipeVars, cancelVars,
                   waiters, work_queue, outcome,
                   runs, fail_fast, flow_graph, resubmitted, first_ran, rounds,
                   call>>

\* Lines 218-219: the awaited coroutine returns; its result is stored and the
\* item leaves `remaining`.  After the last coroutine of the wave the loop
\* goes back to its head.
GraphCollect(i) ==
    /\ scenario = "graph"
    /\ pc = "await"
    /\ awaited = {i}
    /\ st[i] = "finished"
    /\ ReturnAsync(i)
    /\ remaining' = remaining \ {i}
    /\ tasks' = tasks \ {i}
    /\ awaited' = {}
    /\ pc' = IF tasks \ {i} = {} THEN "loop" ELSE "await"
    /\ UNCHANGED <<scenario, frameworkVars,
                   execVars, poolVars, pipeVars, cancelVars,
                   waiters, work_queue, outcome,
                   runs, fail_fast, flow_graph, resubmitted, first_ran, rounds,
                   call>>

\* A second execute_with_dependencies call with the same flow_graph on the
\* same AsyncFlowExecutor, after the first one raised: lines 188-189 start it
\* with empty results and every key remaining.  The coroutines of the first
\* call are gone; what it ran is kept in first_ran.
GraphResubmit ==
    /\ scenario = "graph"
    /\ call = "raised"
    /\ ~resubmitted
    /\ resubmitted' = TRUE
    /\ first_ran' = {i \in Names : runs[i] > 0}
    /\ rounds' = 0
    /\ st' = [n \in Names |-> "new"]
    /\ outcome' = [n \in Names |-> NoResult]
    /\ runs' = [n \in Names |-> 0]
    /\ results' = [n \in Names |-> NoResult]
    /\ remaining' = Names
    /\ tasks' = {}
    /\ awaited' = {}
    /\ pc' = "loop"
    /\ call' = "active"
    /\ UNCHANGED <<scenario, frameworkVars,
                   execVars, poolVars, pipeVars, cancelVars,
                   semaphore, waiters, work_queue, fail_fast, flow_graph>>

(***************************************************************************)
(* "pipeline": execute_pipeline.  execute_flows_sequential (lines 337-349) *)
(* is the same loop with pass_output = FALSE.                              *)
(***************************************************************************)
\* Lines 242-245: what the stage is started with.
CurrentInputFromFirstResult(i, plist, pass) ==
    IF pass /\ plist # <<>> THEN OutputOf(plist[1]) ELSE DeclaredInput(i)

CurrentInput(i, plist, pass) ==
    IF pass /\ plist # <<>> THEN OutputOf(plist[Len(plist)]) ELSE DeclaredInput(i)

\* Line 258: whether the loop breaks after this result.
PipelineNeverStops(r) == FALSE

PipelineStops(r) == r.status # "success"

\* Lines 241 and 248: the loop is at stage i when i - 1 results are in the
\* list, and it awaits the coroutine of a stage before it goes on.
StageMayStartEarly(i) == st[i] = "new" /\ \A j \in Names : j < i => st[j] # "new"

StageMayStart(i) == awaited = {} /\ i = Len(pipeline_results) + 1

\* Lines 241-253 up to the first suspension of the coroutine of stage i.
PipelineStart(i) ==
    /\ scenario = "pipeline"
    /\ call = "active"
    /\ StageMayStart(i)
    /\ inputs' = [inputs EXCEPT ![i] = CurrentInput(i, pipeline_results, pass_output)]
    /\ awaited' = {i}
    /\ StartAsync(i)
    /\ UNCHANGED <<scenario, frameworkVars,
                   execVars, poolVars, cancelVars, outcome, runs,
                   fail_fast, results, flow_graph, remaining, tasks, pc,
                   resubmitted, first_ran, rounds, pass_output, pipeline_results,
                   call>>

\* Lines 248-262: the awaited coroutine returns, its result is appended, and
\* the call returns the list after a result that is not success or after the
\* last stage.
PipelineCollect(i) ==
    /\ scenario = "pipeline"
    /\ awaited = {i}
    /\ st[i] = "finished"
    /\ ReturnAsync(i)
    /\ pipeline_results' = Append(pipeline_results, [flow |-> i, result |-> outcome[i]])
    /\ awaited' = {}
    /\ call' = IF PipelineStops(outcome[i]) \/ i = NumItems THEN "returned" ELSE "active"
    /\ UNCHANGED <<scenario, frameworkVars,
                   execVars, poolVars, cancelVars, waiters, work_queue,
                   outcome, runs, fail_fast, flow_graph, remaining, tasks, pc,
                   resubmitted, first_ran, rounds, pass_output, inputs>>

(***************************************************************************)
(* AsyncFlowExecutor.cancel_execution, lines 264-280.                      *)
(***************************************************************************)
\* Called once while an execute_batch call is under way, with the execution
\* id of item i, which exists from line 64 on, i.e. while the item holds a
\* slot.  The caller's task runs after the first step of every task of the
\* batch.  Nothing in async_executor.py ever adds an id to active_tasks.
CancelExecution(i) ==
    /\ scenario = "batch"
    /\ call = "active"
    /\ i \in Holding
    /\ \A j \in Names : st[j] # "new"
    /\ cancel_ret = "not_called"
    /\ IF i \in active_tasks
       THEN /\ active_tasks' = active_tasks \ {i}
            /\ cancel_ret' = "true"
       ELSE /\ cancel_ret' = "false"
            /\ UNCHANGED active_tasks
    /\ UNCHANGED <<scenario, frameworkVars,
                   execVars, poolVars, pipeVars, semaphore, waiters,
                   work_queue, st, outcome, runs, fail_fast, results, graphVars,
                   call>>

Next ==
    \/ ExecuteCall
    \/ \E i \in Names : Wake(i)
    \/ \E i \in Names : Dispatch(i)
    \/ \E i \in Names : RunnerDone(i)
    \/ \E i \in Names : DirectStart(i)
    \/ \E i \in Names : DirectFinish(i)
    \/ \E i \in Names : BatchStart(i)
    \/ \E i \in Names : BatchFinish(i)
    \/ BatchReturn
    \/ GraphLoop
    \/ \E i \in Names : GraphAwait(i)
    \/ \E i \in Names : GraphCollect(i)
    \/ GraphResubmit
    \/ \E i \in Names : PipelineStart(i)
    \/ \E i \in Names : PipelineCollect(i)
    \/ \E i \in Names : CancelExecution(i)

Spec == Init /\ [][Next]_vars

\* One execute_batch call on its own.  The event loop runs every task that can
\* run, the pool gives every job a thread once one is free, and every
\* invocation of the runner ends: a step that stays possible is taken.
NextBatch ==
    \/ \E i \in Names : BatchStart(i)
    \/ \E i \in Names : Wake(i)
    \/ \E i \in Names : Dispatch(i)
    \/ \E i \in Names : BatchFinish(i)
    \/ BatchReturn
    \/ \E i \in Names : RunnerDone(i)

FairBatchSpec == InitBatch /\ [][NextBatch]_vars /\ WF_vars(NextBatch)

\* One execute_with_dependencies call: the event loop runs the caller's task
\* whenever it can go on, a pool thread takes the job of the queue, and the
\* runner ends.  No coroutine ever waits on the semaphore here, for the call
\* awaits its coroutines one at a time.
NextGraph ==
    \/ GraphLoop
    \/ \E i \in Names : GraphAwait(i)
    \/ \E i \in Names : Dispatch(i)
    \/ \E i \in Names : RunnerDone(i)
    \/ \E i \in Names : GraphCollect(i)

FairGraphSpec == InitGraph /\ [][NextGraph]_vars /\ WF_vars(NextGraph)

(***************************************************************************)
(* "manager": FlowManager.create_flow and delete_flow.                     *)
(***************************************************************************)
IdleAsync ==
    /\ IdleExec
    /\ InitPool(1, 1)
    /\ IdleGraph
    /\ IdlePipe
    /\ fail_fast = FALSE
    /\ call = "active"

InitManager ==
    /\ scenario = "manager"
    /\ IdleAsync
    /\ files = [n \in FlowNames |-> NoFile]
    /\ sub_exists \in BOOLEAN
    /\ fm_last = NoManagerCall
    /\ IdleConfig
    /\ IdleSchedule

\* create_flow(flow_name), lines 98-118, at time t: False when the file is
\* there, False when writing it raises, True after writing it.
CreateFlow(n, t) ==
    /\ scenario = "manager"
    /\ IF PathExists(files, n) \/ ~DirExists(n, sub_exists)
       THEN /\ fm_last' = [op |-> "create", name |-> n, ret |-> FALSE]
            /\ UNCHANGED files
       ELSE /\ files' = [files EXCEPT ![n] = FlowFile(n, t)]
            /\ fm_last' = [op |-> "create", name |-> n, ret |-> TRUE]
    /\ UNCHANGED <<scenario, asyncVars, sub_exists, configVars, scheduleVars>>

\* delete_flow(flow_name), lines 130-143.
DeleteFlow(n) ==
    /\ scenario = "manager"
    /\ IF ~PathExists(files, n)
       THEN /\ fm_last' = [op |-> "delete", name |-> n, ret |-> FALSE]
            /\ UNCHANGED files
       ELSE /\ files' = [files EXCEPT ![n] = NoFile]
            /\ fm_last' = [op |-> "delete", name |-> n, ret |-> TRUE]
    /\ UNCHANGED <<scenario, asyncVars, sub_exists, configVars, scheduleVars>>

(***************************************************************************)
(* "config": Config instances.                                             *)
(***************************************************************************)
InitConfig ==
    /\ scenario = "config"
    /\ IdleAsync
    /\ IdleManager
    /\ IdleConfig
    /\ IdleSchedule

\* Config(), lines 131-158, with no configuration file around and
\* PAD_LOG_LEVEL being e: self.config is a new dict with the entries of
\* DEFAULT_CONFIG (dict.copy copies one level), then load_from_env.
ConfigInit(c, e) ==
    /\ scenario = "config"
    /\ top[c] = 0
    /\ brk < MaxDicts
    /\ LET copied == [heap EXCEPT ![brk + 1] = heap[DefaultConfigId]]
           r == LoadFromEnv(copied, brk + 1, e)
       IN  /\ heap' = r.heap
           /\ cfg_raised' = r.raised
    /\ top' = [top EXCEPT ![c] = brk + 1]
    /\ brk' = brk + 1
    /\ UNCHANGED <<scenario, asyncVars, managerVars, scheduleVars>>

\* config.set(key, value), lines 247-255.
ConfigSet(c, key, value) ==
    /\ scenario = "config"
    /\ top[c] # 0
    /\ brk + Allocations(heap, top[c], key) <= MaxDicts
    /\ LET r == SetWalk(heap, top[c], key, value, brk)
       IN  /\ heap' = r.heap
           /\ brk' = r.brk
           /\ cfg_raised' = r.raised
    /\ UNCHANGED <<scenario, asyncVars, managerVars, scheduleVars, top>>

\* config.load_from_env() with PAD_LOG_LEVEL = e, lines 179-195.
ConfigLoadFromEnv(c, e) ==
    /\ scenario = "config"
    /\ top[c] # 0
    /\ LET r == LoadFromEnv(heap, top[c], e)
       IN  /\ heap' = r.heap
           /\ cfg_raised' = r.raised
    /\ UNCHANGED <<scenario, asyncVars, managerVars, scheduleVars, top, brk>>

\* config.load_from_file(path) on a file with {"logging": {"level": v}},
\* lines 167-175.
ConfigLoadFromFile(c, v) ==
    /\ scenario = "config"
    /\ top[c] # 0
    /\ brk < MaxDicts
    /\ LET r == DeepUpdate(heap, top[c], v, brk)
       IN  /\ heap' = r.heap
           /\ brk' = r.brk
    /\ cfg_raised' = FALSE
    /\ UNCHANGED <<scenario, asyncVars, managerVars, scheduleVars, top>>

(***************************************************************************)
(* "schedule": FlowExecutor.schedule and cancel_schedule, which            *)
(* PADFramework.schedule_flow and cancel_schedule (framework.py, lines     *)
(* 177-206) pass through.                                                  *)
(***************************************************************************)
InitSchedule ==
    /\ scenario = "schedule"
    /\ IdleAsync
    /\ IdleManager
    /\ IdleConfig
    /\ IdleSchedule

\* schedule(...), lines 273-284: uuid4 gives an id it has not given before.
Schedule(id) ==
    /\ scenario = "schedule"
    /\ id \notin issued
    /\ issued' = issued \cup {id}
    /\ scheduled_flows' = scheduled_flows \cup {id}
    /\ n_schedule' = n_schedule + 1
    /\ sched_last' = [op |-> "schedule", id |-> id, ret |-> TRUE]
    /\ UNCHANGED <<scenario, asyncVars, managerVars, configVars, n_cancelled>>

\* cancel_schedule(schedule_id), lines 296-301, with any id.
CancelSchedule(id) ==
    /\ scenario = "schedule"
    /\ IF Registered(id)
       THEN /\ scheduled_flows' = scheduled_flows \ {id}
            /\ n_cancelled' = n_cancelled + 1
            /\ sched_last' = [op |-> "cancel", id |-> id, ret |-> TRUE]
       ELSE /\ sched_last' = [op |-> "cancel", id |-> id, ret |-> FALSE]
            /\ UNCHANGED <<scheduled_flows, n_cancelled>>
    /\ UNCHANGED <<scenario, asyncVars, managerVars, configVars, issued, n_schedule>>

\* The flows directory and the schedule registry.
InitFramework == InitManager \/ InitSchedule

NextFramework ==
    \/ \E n \in FlowNames, t \in Stamps : CreateFlow(n, t)
    \/ \E n \in FlowNames : DeleteFlow(n)
    \/ \E id \in ScheduleIds : Schedule(id)
    \/ \E id \in ScheduleIds : CancelSchedule(id)

FrameworkSpec == InitFramework /\ [][NextFramework]_vars

\* The Config instances of one process.
NextConfig ==
    \/ \E c \in Configs, e \in Values \cup {"unset"} : ConfigInit(c, e)
    \/ \E c \in Configs, key \in KeyPaths, value \in Values : ConfigSet(c, key, value)
    \/ \E c \in Configs, e \in Values \cup {"unset"} : ConfigLoadFromEnv(c, e)
    \/ \E c \in Configs, v \in Values : ConfigLoadFromFile(c, v)

ConfigSpec == InitConfig /\ [][NextConfig]_vars

(***************************************************************************)
(* Shapes of a flow_graph.                                                 *)
(***************************************************************************)
RECURSIVE Closure(_, _, _)
Closure(g, S, k) ==
    IF k = 0 THEN S
    ELSE Closure(g, S \cup UNION {g[n] : n \in S \cap Names}, k - 1)

\* every name item i depends on, directly or through other items
DependsOn(g, i) == Closure(g, g[i], NumItems)

HasCycle(g) == \E i \in Names : i \in DependsOn(g, i)
HasUnknownDep(g) == \E i \in Names : Unknown \in g[i]
ValidAcyclic(g) == ~HasCycle(g) /\ ~HasUnknownDep(g)

(***************************************************************************)
(* Properties.                                                             *)
(***************************************************************************)

\* C1: in execute_with_dependencies on a valid graph, once a dependency of an
\* item (direct or transitive) has a result that is not success, the item is
\* never started and the returned results hold status cancelled for it, with
\* an error naming the unmet dependency.
C1_FailedDependencyCancelsDependents ==
    (scenario = "graph" /\ ValidAcyclic(flow_graph)) =>
        \A i \in Names : \A d \in DependsOn(flow_graph, i) \cap Names :
            results[d].status \notin {"none", "success"} =>
                /\ runs[i] = 0
                /\ st[i] = "new"
                /\ call = "returned" =>
                      /\ results[i].status = "cancelled"
                      /\ results[i].error = "unmet_dependency"

\* C2: on a valid acyclic graph execute_with_dependencies does not raise,
\* enters flow_executor.execute at most once per item, and returns a results
\* dict whose keys are exactly the submitted names, each item run once.
C2_OneResultPerItem ==
    (scenario = "graph" /\ ValidAcyclic(flow_graph)) =>
        /\ call # "raised"
        /\ \A i \in Names : runs[i] <= 1
        /\ call = "returned" =>
              \A i \in Names : results[i] # NoResult /\ runs[i] = 1

C2_Witness ==
    /\ scenario = "graph"
    /\ ValidAcyclic(flow_graph)
    /\ Cardinality(Edges(flow_graph)) = MaxEdges
    /\ call = "returned"
    /\ \E i \in Names : results[i].status = "failed"

\* C3: on a graph with a dependency cycle (a self-dependency included)
\* execute_with_dependencies never returns results, and no item is started
\* and no result produced, whatever else the graph holds.
C3_CycleRejectedBeforeAnyRun ==
    (scenario = "graph" /\ HasCycle(flow_graph)) =>
        /\ call # "returned"
        /\ \A i \in Names :
              runs[i] = 0 /\ st[i] = "new" /\ results[i] = NoResult

\* C4: on a graph where an item names a dependency that is no item of the
\* graph, flow_executor.execute is entered for no item.
C4_UnknownDependencyRejectedBeforeAnyRun ==
    (scenario = "graph" /\ HasUnknownDep(flow_graph)) =>
        \A i \in Names : runs[i] = 0 /\ st[i] \notin {"running", "finished", "done"}

WithinCeiling ==
    /\ Cardinality(Running) <= max_concurrent
    /\ Cardinality(Holding) <= max_concurrent

AdmittedOnlyIntoFreeSlot ==
    \A i \in Names :
        (st[i] \in {"new", "waiting"} /\ st'[i] \notin {"new", "waiting"}) =>
            Cardinality(Holding) < max_concurrent

\* C5: in every scenario at most max_concurrent items are inside
\* flow_executor.execute and at most max_concurrent hold a slot; an item that
\* has no slot (not started, or waiting on the semaphore) gets one only in a
\* state where fewer than max_concurrent slots are held.
C5_ConcurrencyCeiling == []WithinCeiling /\ [][AdmittedOnlyIntoFreeSlot]_vars

C5_Witness ==
    /\ scenario = "batch"
    /\ max_concurrent = MaxConcurrent
    /\ Cardinality(Running) = max_concurrent
    /\ \E i \in Names : st[i] = "waiting"

\* C6: FlowExecutor.execute with retry_count = n invokes the runner at least
\* once and at most n + 1 times; if every invocation fails, exactly n + 1 are
\* made and the status is failed.
C6_RetryBudgetBound ==
    (scenario = "execute" /\ call = "returned") =>
        /\ execution.attempts >= 1
        /\ execution.attempts <= x_retry + 1
        /\ (\A k \in 1..StopAfterAttempt : x_log[k] # "ok") =>
              (execution.attempts = x_retry + 1 /\ execution.status = "failed")

\* C7: when no invocation of the runner returns within the timeout, the
\* result of FlowExecutor.execute has status timeout, and with retry_count > 0
\* more than one invocation was made.
C7_TimeoutPrecedence ==
    (/\ scenario = "execute"
     /\ call = "returned"
     /\ \A k \in 1..StopAfterAttempt : x_log[k] = "timeout") =>
        /\ execution.status = "timeout"
        /\ x_retry > 0 => execution.attempts > 1

SomeResultNotSuccess ==
    \E j \in Names : results[j].status \notin {"none", "success"}

\* C8: in execute_batch with fail_fast, once a result that is not success has
\* been collected, no further item enters flow_executor.execute, and an item
\* whose runner had not finished by then ends with status cancelled.
C8_FailFastCancelsTheRest ==
    [][(scenario = "batch" /\ fail_fast /\ SomeResultNotSuccess) =>
          \A i \in Names :
              /\ runs'[i] = runs[i]
              /\ st[i] \in {"new", "waiting", "submitted", "running"} =>
                    outcome'[i].status \in {"none", "cancelled"}]_vars

ReturnedOnlyWhenAllDone ==
    (scenario = "batch" /\ fail_fast /\ call = "returned") =>
        \A i \in Names : st[i] = "done" /\ results[i] # NoResult

\* C9: in execute_batch with fail_fast, when every step that can be taken is
\* taken (every invocation of the runner ends), the call eventually returns,
\* and it has returned only when every item of the batch is done and has its
\* result.
C9_FailFastBatchReturns ==
    /\ (scenario = "batch" /\ fail_fast) ~> (call = "returned")
    /\ []ReturnedOnlyWhenAllDone

C9_Witness ==
    /\ scenario = "batch"
    /\ fail_fast
    /\ call = "returned"
    /\ \E i, j \in Names : results[i].status = "failed" /\ results[j].status = "success"

\* C10: execute_batch without fail_fast returns one result per entry, each
\* the outcome of the item's own single run of flow_executor.execute (success
\* or failed, never cancelled, never missing), whatever the other items did.
C10_CollectAllBatch ==
    (scenario = "batch" /\ ~fail_fast /\ call = "returned") =>
        \A i \in Names :
            /\ runs[i] = 1
            /\ results[i].status \in {"success", "failed"}
            /\ results[i] = outcome[i]

C10_Witness ==
    /\ scenario = "batch"
    /\ ~fail_fast
    /\ call = "returned"
    /\ results[1].status = "failed"
    /\ \E j \in Names : results[j].status = "success"

\* C11: the list execute_pipeline builds is a prefix of the stages, entry k
\* being the result of stage k's run; every entry but the last is success;
\* when the call has returned, the list is complete or ends with the first
\* result that is not success; no stage after such a result is started.
C11_PipelineTruncation ==
    scenario = "pipeline" =>
        /\ Len(pipeline_results) <= NumItems
        /\ \A k \in 1..Len(pipeline_results) :
              /\ pipeline_results[k].flow = k
              /\ pipeline_results[k].result = outcome[k]
              /\ pipeline_results[k].result # NoResult
              /\ k < Len(pipeline_results) =>
                    pipeline_results[k].result.status = "success"
        /\ call = "returned" =>
              /\ pipeline_results # <<>>
              /\ \/ Len(pipeline_results) = NumItems
                 \/ pipeline_results[Len(pipeline_results)].result.status # "success"
        /\ \A i \in Names :
              (\E k \in 1..Len(pipeline_results) :
                  k < i /\ pipeline_results[k].result.status # "success") =>
                  (runs[i] = 0 /\ st[i] = "new" /\ inputs[i] = NoInput)

C11_Witness ==
    /\ scenario = "pipeline"
    /\ call = "returned"
    /\ Len(pipeline_results) = 2
    /\ pipeline_results[1].result.status = "success"
    /\ pipeline_results[2].result.status = "failed"
    /\ st[3] = "new"

InFlight == {i \in Names : st[i] \in {"waiting", "submitted", "running", "finished"}}

\* C12: in execute_pipeline a stage is started only when every earlier stage
\* has returned its result, and at most one stage is between its start and
\* its result in every state, however many slots and threads are free.
C12_PipelineTotalOrder ==
    scenario = "pipeline" =>
        /\ Cardinality(InFlight) <= 1
        /\ \A i \in Names : st[i] # "new" =>
              \A j \in Names : j < i =>
                  (st[j] = "done" /\ results[j] # NoResult)

C12_Witness ==
    /\ scenario = "pipeline"
    /\ max_concurrent >= 2
    /\ semaphore >= 1
    /\ st[1] = "done"
    /\ st[2] = "running"
    /\ st[3] = "new"

\* C13: every started stage of execute_pipeline was started with, when
\* pass_output is set and it is not the first stage, exactly the output of the
\* result of the stage before it, and otherwise with the input_variables of
\* its own flow_config.
C13_PipelineOutputPassing ==
    scenario = "pipeline" =>
        \A i \in Names : st[i] # "new" =>
            IF pass_output /\ i > 1
            THEN inputs[i] = [kind |-> "output", of |-> i - 1,
                              value |-> results[i - 1].output]
            ELSE inputs[i] = DeclaredInput(i)

C13_Witness ==
    /\ scenario = "pipeline"
    /\ pass_output
    /\ call = "returned"
    /\ inputs[1].kind = "declared"
    /\ inputs[3].kind = "output"
    /\ inputs[3].of = 2

\* C14: in execute_with_dependencies an item that has been started has every
\* dependency among the items, each with its result returned; and while an
\* item is in flight, every started item outside the wave being awaited has
\* returned its result.
C14_WaveOrdering ==
    scenario = "graph" =>
        \A i \in Names : st[i] # "new" =>
            /\ \A d \in flow_graph[i] :
                  d \in Names /\ st[d] = "done" /\ results[d] # NoResult
            /\ i \in InFlight =>
                  /\ i \in tasks
                  /\ \A j \in Names \ tasks : st[j] \in {"new", "done"}

C14_Witness ==
    /\ scenario = "graph"
    /\ flow_graph[3] = {1, 2}
    /\ st[3] = "running"
    /\ results[1].status = "failed"
    /\ results[2].status = "success"

\* a step of the program that starts the coroutine of item i
Starts(i) == Next /\ st[i] = "new" /\ st'[i] # "new"

\* C15: while execute_with_dependencies works on a wave, an item of the wave
\* that has not been started can be started as long as a slot is free, also
\* when another item of the wave is still in flight.
C15_WaveConcurrency ==
    (scenario = "graph" /\ call = "active" /\ pc = "await") =>
        \A i \in tasks :
            (st[i] = "new" /\ Cardinality(Holding) < max_concurrent) =>
                ENABLED Starts(i)

\* C16: once cancel_execution has been called during an execute_batch call, no
\* item that has no slot yet (not started, or waiting on the semaphore) gets
\* one, and when the call returns, such an item has a result with status
\* cancelled.
C16_CancelIsCallWide ==
    [][(scenario = "batch" /\ cancel_ret # "not_called") =>
          \A i \in Names :
              /\ st[i] \in {"new", "waiting"} => st'[i] \in {"new", "waiting"}
              /\ (st[i] \in {"new", "waiting"} /\ call' = "returned") =>
                    results'[i].status = "cancelled"]_vars

\* C17: when the last invocation of the runner ended with a non-zero return
\* code, FlowExecutor.execute returns status failed with the text of the
\* runner's exception as error; and no execute_batch call raises.
C17_RunnerExceptionContained ==
    /\ (scenario = "execute" /\ call = "returned" /\ execution.last = "nonzero") =>
          /\ execution.status = "failed"
          /\ execution.error = ExecuteFlow("nonzero").value
    /\ scenario = "batch" => call # "raised"

\* C18: FlowExecutor.execute returns success exactly when the last invocation
\* it made returned code 0, no invocation before the last returned code 0, and
\* when the last invocation failed the result has the status of that
\* invocation (timeout if it timed out, failed otherwise) and its error text.
C18_RetryOutcome ==
    (scenario = "execute" /\ call = "returned") =>
        /\ execution.status = "success" <=> execution.last = "ok"
        /\ execution.last = x_log[execution.attempts]
        /\ \A k \in 1..(execution.attempts - 1) : x_log[k] # "ok"
        /\ execution.last # "ok" =>
              /\ execution.status = (IF execution.last = "timeout" THEN "timeout" ELSE "failed")
              /\ execution.error = ExecuteFlow(execution.last).value

ItemResultIsTerminal ==
    \A i \in Names :
        /\ results[i].status \in {"none", "success", "failed"}
        /\ results[i] # NoResult => (st[i] = "done" /\ results[i] = outcome[i])
        /\ runs[i] <= 1
        /\ st[i] \in {"new", "waiting", "submitted"} => runs[i] = 0

ItemMoves ==
    resubmitted' = resubmitted =>
        \A i \in Names :
            /\ \/ st'[i] = st[i]
               \/ <<st[i], st'[i]>> \in {<<"new", "waiting">>, <<"new", "submitted">>,
                                         <<"waiting", "submitted">>,
                                         <<"submitted", "running">>,
                                         <<"running", "finished">>,
                                         <<"finished", "done">>}
            /\ results[i] # NoResult => results'[i] = results[i]
            /\ st[i] \in {"finished", "done"} => outcome'[i] = outcome[i]

\* C19: within one call every item only moves forward: not started, waiting
\* for a slot, submitted, inside flow_executor.execute (entered once), finished,
\* result returned.  Its result is success or failed, is the one its run
\* produced, and is never replaced; inside flow_executor.execute the runner is
\* invoked again only after an invocation that failed.
C19_ItemStateMachine ==
    /\ []ItemResultIsTerminal
    /\ [][ItemMoves]_vars
    /\ []((scenario = "execute" /\ call = "returned") =>
             \A k \in 1..(execution.attempts - 1) : x_log[k] # "ok")

C19_Witness ==
    /\ scenario = "graph"
    /\ st[1] = "done"
    /\ results[1].status = "failed"
    /\ st[2] = "done"
    /\ results[2].status = "success"
    /\ st[3] = "running"

InvalidGraph(g) == HasCycle(g) \/ HasUnknownDep(g)

\* C20: on a graph with a cycle or an unknown dependency neither the first
\* execute_with_dependencies call nor a second one with the same graph returns
\* results or runs any item, and the second call ends as the first did.
C20_ValidationIdempotent ==
    (scenario = "graph" /\ InvalidGraph(flow_graph)) =>
        /\ call # "returned"
        /\ \A i \in Names : runs[i] = 0 /\ results[i] = NoResult
        /\ resubmitted => first_ran = {}
        /\ (resubmitted /\ call = "raised") => {i \in Names : runs[i] > 0} = first_ran

WellFormed(r) ==
    /\ r.status \in {"success", "failed", "timeout", "cancelled"}
    /\ r.error # "none" <=> r.status # "success"
    /\ r.status = "success" => r.output = ExecuteFlow("ok").value
    /\ r.status # "success" => r.output = "empty"

\* C21: every result of FlowExecutor.execute, and every result an
\* execute_async coroutine produced, a scheduling call stored or
\* execute_pipeline listed, has a status among success, failed, timeout and
\* cancelled, an error exactly when the status is not success, the runner's
\* output when it is success and an empty output otherwise.
C21_ResultWellFormed ==
    /\ (scenario = "execute" /\ call = "returned") => WellFormed(execution)
    /\ \A i \in Names :
          /\ outcome[i] # NoResult => WellFormed(outcome[i])
          /\ results[i] # NoResult => WellFormed(results[i])
    /\ \A k \in 1..Len(pipeline_results) : WellFormed(pipeline_results[k].result)

C21_Witness ==
    /\ scenario = "execute"
    /\ call = "returned"
    /\ execution.status = "failed"
    /\ execution.attempts = StopAfterAttempt
    /\ execution.output = "empty"

\* C22 as stated: FlowExecutor.execute sleeps only between invocations of the
\* runner; the first sleep is the base (the multiplier, 1 s), every later
\* sleep is twice the one before it unless the maximum cuts it, and no sleep
\* is longer than the maximum.
C22_BackoffFromBase ==
    (scenario = "execute" /\ call = "returned") =>
        /\ Len(execution.waits) = execution.attempts - 1
        /\ \A k \in 1..Len(execution.waits) :
              /\ execution.waits[k] <= WaitMax
              /\ k = 1 => execution.waits[k] = WaitMultiplier
              /\ k > 1 => execution.waits[k] = Min2(2 * execution.waits[k - 1], WaitMax)

\* C22, amended: FlowExecutor.execute sleeps only between invocations of the
\* runner (never before the first, never after the last, not at all with
\* retry_count = 0); every sleep is at least the configured minimum of 4 s and
\* at most the maximum of 10 s, and no sleep is shorter than the one before.
C22_BackoffWithinMinAndMax ==
    (scenario = "execute" /\ call = "returned") =>
        /\ Len(execution.waits) = execution.attempts - 1
        /\ x_retry = 0 => execution.waits = <<>>
        /\ \A k \in 1..Len(execution.waits) :
              /\ execution.waits[k] >= WaitMin
              /\ execution.waits[k] <= WaitMax
              /\ k > 1 => execution.waits[k] >= execution.waits[k - 1]

C22_Witness ==
    /\ scenario = "execute"
    /\ call = "returned"
    /\ x_retry > 0
    /\ Len(execution.waits) = StopAfterAttempt - 1
    /\ execution.status = "success"

\* C23: every create_flow(name) returns True exactly when no flow file of that
\* name was there, and then name is in list_flows(), and otherwise leaves the
\* files unchanged; every delete_flow(name) returns True exactly when the flow
\* file was there, and then name is not in list_flows(), and otherwise leaves
\* the files unchanged.
C23_CreateDeleteFlow ==
    [][scenario = "manager" =>
          LET n == fm_last'.name
          IN  /\ fm_last'.op = "create" =>
                    /\ fm_last'.ret <=> ~PathExists(files, n)
                    /\ fm_last'.ret => NameString(n) \in ListFlows(files')
                    /\ ~fm_last'.ret => files' = files
              /\ fm_last'.op = "delete" =>
                    /\ fm_last'.ret <=> PathExists(files, n)
                    /\ fm_last'.ret => NameString(n) \notin ListFlows(files')
                    /\ ~fm_last'.ret => files' = files]_vars

\* C24: after config.set(k, v) on a Config, config.get(k) returns v, for every
\* dot-separated key k and value v; and config.get(k, default) of a key whose
\* first segment is not in the configuration returns the default.
C24_ConfigRoundTrip ==
    [][\A c \in Configs, k \in KeyPaths, v \in Values :
          /\ ConfigSet(c, k, v) =>
                /\ ~cfg_raised'
                /\ Get(heap', top[c], k, Absent) = Leaf(v)
          /\ (top[c] # 0 /\ heap[top[c]][k[1]].kind = "absent") =>
                Get(heap, top[c], k, Leaf("INFO")) = Leaf("INFO")]_vars

\* C30: a set, load_from_env or load_from_file on one Config instance leaves
\* what get returns on every other instance, and what DEFAULT_CONFIG holds for
\* the instances made later, as it was.
C30_ConfigIsolation ==
    [][\A c \in Configs :
          (\/ \E k \in KeyPaths, v \in Values : ConfigSet(c, k, v)
           \/ \E e \in Values : ConfigLoadFromEnv(c, e)
           \/ \E v \in Values : ConfigLoadFromFile(c, v))
          => \A k \in KeyPaths :
                /\ Get(heap', DefaultConfigId, k, Absent) = Get(heap, DefaultConfigId, k, Absent)
                /\ \A o \in Configs \ {c} :
                      top[o] # 0 =>
                         Get(heap', top[o], k, Absent) = Get(heap, top[o], k, Absent)]_vars

\* C29: after every schedule or cancel_schedule call the number of registered
\* schedules is the number of schedule calls minus the number of
\* cancel_schedule calls that returned True; cancel_schedule(id) returns True
\* exactly when id is registered and then removes that entry and no other;
\* otherwise (a second cancel of the same id included) it returns False and
\* the registry stays as it was.
C29_ScheduleRegistry ==
    [][scenario = "schedule" =>
          /\ Cardinality(scheduled_flows') = n_schedule' - n_cancelled'
          /\ sched_last'.op = "cancel" =>
                /\ sched_last'.ret <=> sched_last'.id \in scheduled_flows
                /\ scheduled_flows' = scheduled_flows \ {sched_last'.id}
                /\ ~sched_last'.ret =>
                      /\ scheduled_flows' = scheduled_flows
                      /\ n_cancelled' = n_cancelled]_vars

\* An id was scheduled and cancelled, another is still registered, and a second
\* cancel of the first has returned False.
C29_Witness ==
    /\ scenario = "schedule"
    /\ sched_last = [op |-> "cancel", id |-> sched_last.id, ret |-> FALSE]
    /\ sched_last.id \in issued
    /\ scheduled_flows # {}
    /\ n_cancelled > 0

\* C25: cancel_execution called with the execution id of an item that
\* execute_async has started and that still holds its slot returns True.
C25_CancelInFlightReturnsTrue ==
    (scenario = "batch" /\ cancel_ret # "not_called") => cancel_ret = "true"

C28_BatchResultOrder ==
    scenario = "batch" =>
        /\ \A k \in Names :
              results[k] # NoResult =>
                 /\ st[k] = "done"
                 /\ results[k].flow_name = k
                 /\ results[k] = outcome[k]
        /\ call = "returned" => \A k \in Names : results[k] # NoResult

\* Completion out of submission order: the last item of the batch has finished,
\* with a failed result kept at its own index, while the first item still
\* holds its slot and has no result yet.
C28_Witness ==
    /\ scenario = "batch"
    /\ st[NumItems] = "done"
    /\ st[1] \in {"submitted", "running", "finished"}
    /\ results[NumItems].status = "failed"
    /\ results[1] = NoResult

\* C27: every execute_with_dependencies call ends, by returning or by raising,
\* whatever the graph; the body of its while loop is entered at most as many
\* times as there are items, and each time the loop is back at its head, every
\* pass made so far has taken at least one item out of `remaining`.
C27_GraphCallTerminates ==
    /\ (scenario = "graph" /\ call = "active") ~> (call \in {"returned", "raised"})
    /\ [](scenario = "graph" =>
             /\ rounds <= NumItems
             /\ (pc = "loop" /\ call = "active") =>
                    rounds + Cardinality(remaining) <= NumItems)

\* A call that went through as many passes as there are items and then ended.
C27_Witness ==
    /\ scenario = "graph"
    /\ rounds = NumItems
    /\ call \in {"returned", "raised"}
    /\ \E i \in Names : results[i] # NoResult

====
